---- MODULE Spec2Model ----
(***************************************************************************)
(* Model of the qtest specialisation of the asynchronous protocol engine   *)
(* (aqmp/qtest_protocol.py) running on a single asyncio event loop.        *)
(*                                                                         *)
(* The event loop is modelled by its ready queue: `ready` is the FIFO of   *)
(* callbacks registered with call_soon; the loop always runs the head.     *)
(* A task runs atomically from one suspension point to the next.  The loop  *)
(* works in iterations: it first polls for what happened outside (timers   *)
(* that wake the user's tasks, lines from the peer, the peer closing the   *)
(* socket), which appends callbacks to the end of `ready`, and then runs   *)
(* the `ntodo` callbacks that are in the queue at that moment.             *)
(***************************************************************************)
EXTENDS Integers, Sequences, FiniteSets, TLC

\* ---- bounds ----
MaxCalls  == 2      \* number of execute() calls issued
MaxIrq    == 2      \* number of IRQ lines the peer injects
MaxDisc   == 2      \* number of disconnect() calls issued
MaxConn   == 1      \* number of connect() calls issued
MaxCancel == 1      \* number of execute() calls the caller cancels
MaxEnv    == 2      \* IRQ lines, disconnect() calls and cancellations together
MaxBare   == 1      \* replies that are the status word alone
MaxTokens == 2      \* tokens after the status word of a reply examined alone
MaxInputs == 2      \* messages the user sends from the front-end
MaxDigits == 4      \* characters of the token that rtas converts
MaxHistory == 3     \* messages sent from the input line
MaxText == 2        \* characters typed into the input line
MaxIndex == 3       \* how far last_index is followed
SmallMaxsize == 1   \* capacity of the outgoing queue where it is to fill up

Calls == 1..MaxCalls
Discs == 1..MaxDisc

VARIABLES
    state,        \* session state: Idle, Connecting, Running, Disconnecting
    pending,      \* QtestProtocol._pending, as the sequence of call ids
    async_queue,  \* QtestProtocol._async_queue
    outgoing,     \* AsyncProtocol._outgoing
    maxsize,      \* the capacity of AsyncProtocol._outgoing
    queue,        \* queue[c]: the reply queue (maxsize 1) made by execute c
    epc,          \* position of execute c: new, start, await, done
    eout,         \* outcome of execute c
    bpc,          \* position of the _bh_execute task of c
    bout,         \* outcome of the _bh_execute task of c
    bcancel,      \* cancellation requested for the _bh_execute task of c
    ecancel,      \* CancelledError is due when execute c resumes
    ready,        \* the event loop's ready queue
    ntodo,        \* callbacks left to run in this iteration; 0 while polling
    rpc,          \* reader task: none, ready, recv, put, putwoken, dead
    rmsg,         \* message the reader is blocked putting
    rq,           \* call whose reply queue the reader is blocked on
    rcancel,      \* cancellation requested for the reader task
    wpc,          \* writer task: none, ready, get, dead
    wcancel,      \* cancellation requested for the writer task
    cpc,          \* connect() caller: none, start, open, estab, failed
    dpc,          \* position of disconnect() call d
    net,          \* lines the peer sent that the transport has not received
    netclosed,    \* the peer closed its end
    rbuf,         \* lines in the stream reader's buffer, not yet read
    eof,          \* the stream reader was fed EOF
    sent,         \* requests written to the stream, not yet answered
    ncalls, nirq, ndisc, nconn,   \* how many of each input were issued
    nbare,        \* how many replies were the status word alone
    hist,         \* observations used to state the properties
    fin,          \* the argument of a function that is examined on its own
    fout,         \* its result
    app           \* the front-end: the tasks of App and what they did

\* The variables of the engine, and all the variables.
evars == << state, pending, async_queue, outgoing, maxsize, queue, epc, eout, bpc, bout,
            bcancel, ecancel, ready, ntodo, rpc, rmsg, rq, rcancel, wpc, wcancel,
            cpc, dpc, net, netclosed, rbuf, eof, sent, ncalls, nirq, ndisc,
            nconn, nbare, hist >>
vars == << evars, fin, fout, app >>

\* The whole state as one record, so that the steps of a handler compose.
S == [ state |-> state, pending |-> pending, async_queue |-> async_queue,
       outgoing |-> outgoing, maxsize |-> maxsize, queue |-> queue, epc |-> epc, eout |-> eout,
       bpc |-> bpc, bout |-> bout, bcancel |-> bcancel, ecancel |-> ecancel,
       ready |-> ready,
       ntodo |-> ntodo,
       rpc |-> rpc, rmsg |-> rmsg, rq |-> rq, rcancel |-> rcancel,
       wpc |-> wpc, wcancel |-> wcancel, cpc |-> cpc, dpc |-> dpc,
       net |-> net, netclosed |-> netclosed, rbuf |-> rbuf, eof |-> eof, sent |-> sent, ncalls |-> ncalls,
       nirq |-> nirq, ndisc |-> ndisc, nconn |-> nconn, nbare |-> nbare,
       hist |-> hist ]

CommitEngine(s) ==
    /\ state' = s.state             /\ pending' = s.pending
    /\ async_queue' = s.async_queue /\ outgoing' = s.outgoing
    /\ queue' = s.queue             /\ epc' = s.epc
    /\ eout' = s.eout               /\ bpc' = s.bpc
    /\ bout' = s.bout               /\ bcancel' = s.bcancel
    /\ ready' = s.ready             /\ rpc' = s.rpc
    /\ rmsg' = s.rmsg               /\ rq' = s.rq
    /\ rcancel' = s.rcancel         /\ wpc' = s.wpc
    /\ wcancel' = s.wcancel         /\ cpc' = s.cpc
    /\ dpc' = s.dpc                 /\ rbuf' = s.rbuf
    /\ eof' = s.eof                 /\ sent' = s.sent
    /\ ncalls' = s.ncalls           /\ nirq' = s.nirq
    /\ ndisc' = s.ndisc             /\ nconn' = s.nconn
    /\ hist' = s.hist               /\ ntodo' = s.ntodo
    /\ net' = s.net                 /\ netclosed' = s.netclosed
    /\ nbare' = s.nbare             /\ ecancel' = s.ecancel
    /\ UNCHANGED maxsize

Commit(s) == CommitEngine(s) /\ UNCHANGED << fin, fout, app >>

\* ---- small helpers ----
H(k, c) == [k |-> k, c |-> c]
NoOut == [k |-> "none", st |-> "", v |-> << >>]
Out(k, st, v) == [k |-> k, st |-> st, v |-> v]
Tag(c) == ToString(c)
RemoveFirst(seq, x) ==
    LET idx == { i \in 1..Len(seq) : seq[i] = x }
    IN  IF idx = {} THEN seq
        ELSE LET i == CHOOSE j \in idx : \A k \in idx : j <= k
             IN  SubSeq(seq, 1, i - 1) \o SubSeq(seq, i + 1, Len(seq))
InSeq(seq, x) == \E i \in 1..Len(seq) : seq[i] = x

running(s) == s.state = "Running"
disconnecting(s) == s.state = "Disconnecting"

\* The engine after construction.
\* The capacity the engine gives its outgoing queue.
DefaultMaxsize == 64

InitEngineWith(m) ==
    /\ maxsize = m
    /\ state = "Idle"
    /\ pending = << >>
    /\ async_queue = << >>
    /\ outgoing = << >>
    /\ queue = [c \in Calls |-> << >>]
    /\ epc = [c \in Calls |-> "new"]
    /\ eout = [c \in Calls |-> NoOut]
    /\ bpc = [c \in Calls |-> "none"]
    /\ bout = [c \in Calls |-> NoOut]
    /\ bcancel = [c \in Calls |-> FALSE]
    /\ ecancel = [c \in Calls |-> FALSE]
    /\ ready = << >> /\ ntodo = 0
    /\ rpc = "none" /\ rmsg = << >> /\ rq = 0 /\ rcancel = FALSE
    /\ wpc = "none" /\ wcancel = FALSE
    /\ cpc = "none"
    /\ dpc = [d \in Discs |-> "new"]
    /\ net = << >> /\ netclosed = FALSE
    /\ rbuf = << >> /\ eof = FALSE /\ sent = << >>
    /\ ncalls = 0 /\ nirq = 0 /\ ndisc = 0 /\ nconn = 0 /\ nbare = 0
    /\ hist = [ seen |-> << >>, replies |-> << >>, enq |-> << >>,
                ccancel |-> {}, callstate |-> [c \in Calls |-> "none"],
                bhstate |-> [c \in Calls |-> "none"],
                bhdisc |-> {}, bhcanc |-> {}, connsince |-> FALSE,
                dstate |-> [d \in Discs |-> "none"],
                dafter |-> [d \in Discs |-> FALSE],
                dclean |-> [d \in Discs |-> FALSE] ]

InitEngine == InitEngineWith(DefaultMaxsize)

Init == InitEngine /\ fin = << >> /\ fout = << >> /\ app = << >>

\* ---- the asyncio primitives the handlers use ----

\* Join waiters of disconnect() and waiters of the session lock, as handles.
Ids(n) == [i \in 1..n |-> i]
DiscHandles(dp, at) ==
    LET ds == SelectSeq(Ids(MaxDisc), LAMBDA d : dp[d] = at)
    IN  [i \in 1..Len(ds) |-> H("disc", ds[i])]

\* asyncio.Queue.put_nowait on the reply queue of c: store the item and wake
\* the getter, if the _bh_execute task of c is suspended in get().
queue_put_nowait(s, c, msg) ==
    LET s1 == [s EXCEPT !.queue[c] = Append(@, msg)]
    IN  IF s1.bpc[c] = "get"
        THEN [s1 EXCEPT !.bpc[c] = "woken", !.ready = Append(@, H("bh", c))]
        ELSE s1

\* asyncio.Queue.get_nowait on the reply queue of c: remove the item and wake
\* the putter, if the reader is suspended in put() on this queue.
queue_get_nowait(s, c) ==
    LET s1 == [s EXCEPT !.queue[c] = Tail(@)]
    IN  IF s1.rpc = "put" /\ s1.rq = c
        THEN [s1 EXCEPT !.rpc = "putwoken", !.ready = Append(@, H("reader", 0))]
        ELSE s1

\* Task.cancel() on the _bh_execute task of c.  A finished task is left alone;
\* a task suspended in get() has its getter cancelled and is woken; a task
\* that is already in the ready queue gets CancelledError at its next step.
fut_cancel(s, c) ==
    IF s.bpc[c] = "done" THEN s
    ELSE IF s.bpc[c] = "get"
    THEN [s EXCEPT !.bcancel[c] = TRUE, !.bpc[c] = "woken",
                   !.ready = Append(@, H("bh", c))]
    ELSE [s EXCEPT !.bcancel[c] = TRUE]

\* Task.cancel() on the reader and on the writer.
reader_cancel(s) ==
    IF s.rpc \in {"none", "dead"} THEN s
    ELSE IF s.rpc \in {"recv", "put"}
    THEN [s EXCEPT !.rcancel = TRUE, !.rpc = "ready",
                   !.ready = Append(@, H("reader", 0))]
    ELSE [s EXCEPT !.rcancel = TRUE]

writer_cancel(s) ==
    IF s.wpc \in {"none", "dead"} THEN s
    ELSE IF s.wpc = "get"
    THEN [s EXCEPT !.wcancel = TRUE, !.wpc = "ready",
                   !.ready = Append(@, H("writer", 0))]
    ELSE [s EXCEPT !.wcancel = TRUE]

tasks_done(s) == s.rpc \in {"none", "dead"} /\ s.wpc \in {"none", "dead"}

\* disconnect() callers suspended on the termination of the reader and the
\* writer resume once both have terminated.
wake_join(s) ==
    IF tasks_done(s)
    THEN [s EXCEPT !.ready = @ \o DiscHandles(s.dpc, "join"),
                   !.dpc = [d \in Discs |->
                              IF s.dpc[d] = "join" THEN "joinwoken" ELSE s.dpc[d]]]
    ELSE s

wake_lock(s) ==
    [s EXCEPT !.ready = @ \o DiscHandles(s.dpc, "lock"),
              !.dpc = [d \in Discs |->
                         IF s.dpc[d] = "lock" THEN "lockwoken" ELSE s.dpc[d]]]

\* ---- QtestProtocol ----

\* msg = [cmd] + list(args): the request of call c carries its own tag.
Msg(c) == << "cmd", Tag(c) >>

\* " ".join(msg)
RECURSIVE join(_)
join(msg) ==
    IF msg = << >> THEN << >>
    ELSE IF Len(msg) = 1 THEN << msg[1] >>
    ELSE << msg[1], " " >> \o join(Tail(msg))

\* _bh_execute, lines 119-128: classify the reply.  A QtestError carries the
\* status and the rest joined by blanks, the Exception of an unknown status
\* carries its text, a return carries the rest of the tokens.
classify(reply) ==
    LET status == Head(reply)
        reply_msg == Tail(reply)
    IN  IF status \in {"FAIL", "ERR"}
        THEN Out("QtestError", status, join(reply_msg))
        ELSE IF status # "OK"
        THEN Out("Exception", "", << "Unknown response: " >> \o join(reply_msg))
        ELSE Out("ret", "", reply_msg)

\* The _bh_execute task of c ends: the execute awaiting it is woken.
bh_finish(s, c, out) ==
    [s EXCEPT !.bpc[c] = "done", !.bout[c] = out,
              !.ready = Append(@, H("exec", c))]

\* Variant: the outgoing queue hands out the newest message first.
outgoing_put_front(s, msg) ==
    LET s1 == [s EXCEPT !.outgoing = << msg >> \o @,
                        !.hist.enq = Append(@, msg)]
    IN  IF s1.wpc = "get"
        THEN [s1 EXCEPT !.wpc = "ready", !.ready = Append(@, H("writer", 0))]
        ELSE s1

\* self._outgoing.put_nowait(msg): wakes the writer suspended in get().
outgoing_put_nowait(s, msg) ==
    LET s1 == [s EXCEPT !.outgoing = Append(@, msg),
                        !.hist.enq = Append(@, msg)]
    IN  IF s1.wpc = "get"
        THEN [s1 EXCEPT !.wpc = "ready", !.ready = Append(@, H("writer", 0))]
        ELSE s1

\* reply_msg = list(await queue.get()) and what follows it.
bh_get(s, c) ==
    IF s.queue[c] = << >> THEN [s EXCEPT !.bpc[c] = "get"]
    ELSE bh_finish(queue_get_nowait(s, c), c, classify(Head(s.queue[c])))

\* Lines 118-119: put_nowait raises QueueFull on a queue at its capacity
\* (nothing is enqueued, the task ends); otherwise the message is enqueued
\* and the task goes on to await its reply.
bh_put(s, c) ==
    IF Len(s.outgoing) >= s.maxsize
    THEN bh_finish(s, c, Out("QueueFull", "", << >>))
    ELSE bh_get(outgoing_put_nowait(s, Msg(c)), c)

\* Variant: _bh_execute without the test of self.running.
bh_execute_unguarded(s, c) ==
    IF s.bcancel[c] THEN bh_finish(s, c, Out("cancelled", "", << >>))
    ELSE IF s.bpc[c] = "start"
    THEN bh_put([s EXCEPT !.hist.bhstate[c] = s.state], c)
    ELSE bh_get(s, c)

\* One step of the _bh_execute task of c, from where it is suspended to its
\* next suspension point or its end.
bh_execute(s, c) ==
    IF s.bcancel[c] THEN bh_finish(s, c, Out("cancelled", "", << >>))
    ELSE IF s.bpc[c] = "start"
    THEN LET s0 == [s EXCEPT !.hist.bhstate[c] = s.state]
         IN  IF ~running(s0)
             THEN bh_finish(s0, c, Out("StateError", "", << >>))
             ELSE bh_put(s0, c)
    ELSE bh_get(s, c)

\* Variant: the pending entry is put in front of the others.
execute_begin_prepend(s, c) ==
    [s EXCEPT !.queue[c] = << >>,
              !.bpc[c] = "start",
              !.ready = Append(@, H("bh", c)),
              !.pending = << c >> \o @,
              !.epc[c] = "await"]

\* execute, lines 144-147: the reply queue, the task, the pending entry.
execute_begin(s, c) ==
    [s EXCEPT !.queue[c] = << >>,
              !.bpc[c] = "start",
              !.ready = Append(@, H("bh", c)),
              !.pending = Append(@, c),
              !.epc[c] = "await"]

\* Variant: the entry is removed after the await, not in a finally clause.
execute_end_no_finally(s, c) ==
    IF s.bout[c].k = "ret" /\ ~s.ecancel[c]
    THEN [s EXCEPT !.eout[c] = s.bout[c],
                   !.pending = RemoveFirst(@, c),
                   !.epc[c] = "done"]
    ELSE [s EXCEPT !.eout[c] = IF s.ecancel[c] \/ s.bout[c].k = "cancelled"
                               THEN Out("DisconnectedError", "", << >>)
                               ELSE s.bout[c],
                   !.epc[c] = "done"]

\* execute, lines 149-156: the task has ended; its result is returned, its
\* exception raised, its cancellation raised as DisconnectedError, and the
\* pending entry is removed whichever it is.
execute_end(s, c) ==
    LET res == IF s.ecancel[c] \/ s.bout[c].k = "cancelled"
               THEN Out("DisconnectedError", "", << >>)
               ELSE s.bout[c]
    IN  [s EXCEPT !.eout[c] = res,
                  !.pending = RemoveFirst(@, c),
                  !.epc[c] = "done"]

\* Variant: execute without the test of self.disconnecting.
execute_unguarded(s, c) ==
    IF s.epc[c] = "start"
    THEN execute_begin([s EXCEPT !.hist.callstate[c] = s.state], c)
    ELSE execute_end(s, c)

\* One step of execute for call c: either from its entry to `await task`, or
\* from `await task` to its exit.
execute(s, c) ==
    IF s.epc[c] = "start"
    THEN LET s0 == [s EXCEPT !.hist.callstate[c] = s.state]
         IN  IF disconnecting(s0)
             THEN [s0 EXCEPT !.epc[c] = "done",
                             !.eout[c] = Out("StateError", "", << >>)]
             ELSE execute_begin(s0, c)
    ELSE execute_end(s, c)

\* for fut, _queue in self._pending: fut.cancel()
RECURSIVE cancel_pending(_, _)
cancel_pending(s, todo) ==
    IF todo = << >> THEN s
    ELSE cancel_pending(fut_cancel(s, Head(todo)), Tail(todo))

\* _bh_disconnect entered by `who` (the reader, or a disconnect() caller).
\* The engine's part flips the state and cancels the sibling tasks; the
\* qtest part then cancels the future of every pending execution.
bh_disconnect_super(s, who) ==
    LET s1 == [s EXCEPT !.state = "Disconnecting"]
        s2 == IF who = "reader" THEN s1 ELSE reader_cancel(s1)
    IN  writer_cancel(s2)

bh_disconnect(s, who) ==
    IF s.state # "Running" THEN s
    ELSE LET s1 == bh_disconnect_super(s, who)
             s2 == [s1 EXCEPT !.hist.bhdisc =
                                 @ \cup { c \in Calls : s.epc[c] = "await" },
                              !.hist.bhcanc =
                                 @ \cup { c \in Calls : s.epc[c] = "await"
                                                      /\ s.bpc[c] # "done" }]
         IN  cancel_pending(s2, s2.pending)

\* The reader fails (EOF, or an exception out of _on_message): it enters
\* _bh_disconnect and terminates.
reader_fail(s) == wake_join(bh_disconnect([s EXCEPT !.rpc = "dead"], "reader"))

\* Variant: _on_message without the IRQ branch.
on_message_no_irq(s, msg) ==
    IF s.pending = << >> THEN [s EXCEPT !.rpc = "crash"]
    ELSE LET c == s.pending[1]
         IN  IF Len(s.queue[c]) >= 1
             THEN [s EXCEPT !.rpc = "put", !.rmsg = msg, !.rq = c]
             ELSE queue_put_nowait(s, c, msg)

\* _on_message: rpc is left "run" when the reader goes on, "put" when it is
\* suspended in queue.put, "crash" when self._pending[0] raises IndexError.
on_message(s, msg) ==
    IF msg[1] = "IRQ" THEN [s EXCEPT !.async_queue = Append(@, msg)]
    ELSE IF s.pending = << >> THEN [s EXCEPT !.rpc = "crash"]
    ELSE LET c == s.pending[1]
         IN  IF Len(s.queue[c]) >= 1
             THEN [s EXCEPT !.rpc = "put", !.rmsg = msg, !.rq = c]
             ELSE queue_put_nowait(s, c, msg)

\* A line on the wire is the sequence of its words and of the blanks between
\* them, ended by a newline.

\* _cb_outbound and _cb_inbound log the message and hand it on.
cb_outbound(msg) == msg
cb_inbound(msg) == msg

\* _do_send: the words joined by single blanks, and a newline.
do_send(msg) == join(msg) \o << "\n" >>

\* str.strip(): drop the white space at both ends.
RECURSIVE strip(_)
strip(line) ==
    IF line = << >> THEN line
    ELSE IF Head(line) \in {" ", "\n"} THEN strip(Tail(line))
    ELSE IF line[Len(line)] \in {" ", "\n"}
    THEN strip(SubSeq(line, 1, Len(line) - 1))
    ELSE line

\* str.split(' '): cut at every single blank; between two blanks that follow
\* each other, and on an empty string, the piece is the empty word.
RECURSIVE split(_)
split(str) ==
    LET blanks == { i \in 1..Len(str) : str[i] = " " }
        word(piece) == IF piece = << >> THEN "" ELSE piece[1]
    IN  IF blanks = {} THEN << word(str) >>
        ELSE LET i == CHOOSE j \in blanks : \A k \in blanks : j <= k
             IN  << word(SubSeq(str, 1, i - 1)) >>
                    \o split(SubSeq(str, i + 1, Len(str)))

\* _do_recv: strip the line and split it on single blanks.
do_recv(line) == split(strip(line))

\* The reader loop: receive, _cb_inbound, _on_message, until it suspends.
RECURSIVE reader_loop(_)
reader_loop(s) ==
    IF s.rbuf = << >>
    THEN IF s.eof THEN reader_fail(s) ELSE [s EXCEPT !.rpc = "recv"]
    ELSE LET msg == do_recv(Head(s.rbuf))
             s1 == on_message([s EXCEPT !.rbuf = Tail(@),
                                        !.hist.seen = Append(@, msg)],
                              cb_inbound(msg))
         IN  IF s1.rpc = "crash" THEN reader_fail(s1)
             ELSE IF s1.rpc = "put" THEN s1
             ELSE reader_loop(s1)

\* One step of the reader task.
reader(s) ==
    IF s.rcancel THEN wake_join([s EXCEPT !.rpc = "dead"])
    ELSE IF s.rpc = "putwoken"
    THEN reader_loop(queue_put_nowait([s EXCEPT !.rpc = "run", !.rmsg = << >>,
                                                !.rq = 0], s.rq, s.rmsg))
    ELSE reader_loop([s EXCEPT !.rpc = "run"])

\* One step of the writer task: take a message, _cb_outbound, _do_send.
writer(s) ==
    IF s.wcancel THEN wake_join([s EXCEPT !.wpc = "dead"])
    ELSE IF s.outgoing = << >> THEN [s EXCEPT !.wpc = "get"]
    ELSE [s EXCEPT !.sent = Append(@, do_send(cb_outbound(Head(s.outgoing)))),
                   !.outgoing = Tail(@),
                   !.ready = Append(@, H("writer", 0))]

\* _cleanup: the engine's part returns the session to Idle and forgets its
\* tasks; the qtest part asserts that nothing is pending and replaces the
\* async queue.
cleanup_super(s) ==
    [s EXCEPT !.state = "Idle", !.rpc = "none", !.wpc = "none",
              !.rcancel = FALSE, !.wcancel = FALSE,
              !.rbuf = << >>, !.sent = << >>, !.eof = FALSE,
              !.net = << >>, !.netclosed = FALSE,
              !.rmsg = << >>, !.rq = 0]

\* assert not self._pending
cleanup_asserts(s) == s.pending = << >>

\* Variant: _cleanup without the call of super()._cleanup().
cleanup_qtest_only(s) ==
    IF ~cleanup_asserts(s) THEN s
    ELSE [s EXCEPT !.async_queue = << >>, !.hist.seen = << >>]

cleanup(s) ==
    LET s1 == cleanup_super(s)
    IN  IF ~cleanup_asserts(s1) THEN s1
        ELSE [s1 EXCEPT !.async_queue = << >>, !.hist.seen = << >>]

\* disconnect() call d runs _cleanup and leaves: normally, or with the
\* AssertionError of _cleanup.  Callers waiting for the transition to
\* finish are woken.
disconnect_exit(s, d) ==
    LET s1 == cleanup(s)
    IN  wake_lock([s1 EXCEPT !.dpc[d] = IF cleanup_asserts(s1)
                                        THEN "done" ELSE "raised",
                             !.hist.connsince = FALSE])

disconnect_join(s, d) ==
    IF tasks_done(s) THEN disconnect_exit(s, d)
    ELSE [s EXCEPT !.dpc[d] = "join"]

\* A disconnect() is between its entry and its exit.
in_disconnect(s) == \E d \in Discs : s.dpc[d] \in {"join", "joinwoken"}

\* What disconnect() call d finds when it starts.
disconnect_seen(s, d) ==
    [s EXCEPT !.hist.dstate[d] = s.state,
              !.hist.dclean[d] = s.pending = << >>,
              !.hist.dafter[d] = /\ ~s.hist.connsince
                                 /\ \E e \in Discs :
                                       s.dpc[e] \in {"done", "raised"}]

\* One step of disconnect() call d.  Transitions are serialized: a call that
\* finds a connect() or another disconnect() under way waits for it.
disconnect(s, d) ==
    IF s.dpc[d] = "joinwoken" THEN disconnect_exit(s, d)
    ELSE IF s.state = "Connecting" \/ in_disconnect(s)
    THEN [s EXCEPT !.dpc[d] = "lock"]
    ELSE LET s0 == disconnect_seen(s, d)
         IN  IF s0.state = "Idle" THEN [s0 EXCEPT !.dpc[d] = "done"]
             ELSE disconnect_join(bh_disconnect(s0, "user"), d)

\* _new_session: a fresh async queue, a fresh outgoing queue, and the reader
\* and writer tasks of the session.
new_session(s) ==
    [s EXCEPT !.async_queue = << >>, !.outgoing = << >>,
              !.state = "Running",
              !.rpc = "ready", !.wpc = "ready",
              !.rcancel = FALSE, !.wcancel = FALSE,
              !.rbuf = << >>, !.sent = << >>, !.eof = FALSE,
              !.net = << >>, !.netclosed = FALSE,
              !.hist.seen = << >>, !.hist.replies = << >>,
              !.ready = @ \o << H("reader", 0), H("writer", 0) >>]

\* One step of connect().
connect(s) ==
    IF s.cpc = "start"
    THEN IF s.state # "Idle" THEN [s EXCEPT !.cpc = "none"]
         ELSE [s EXCEPT !.state = "Connecting", !.cpc = "open",
                        !.hist.connsince = TRUE]
    ELSE IF s.cpc = "estab"
    THEN wake_lock(new_session([s EXCEPT !.cpc = "none"]))
    ELSE wake_lock([s EXCEPT !.state = "Idle", !.cpc = "none"])

\* ---- the event loop runs the head of the ready queue ----
Pop == [S EXCEPT !.ready = Tail(@), !.ntodo = @ - 1]
Runs(k) == ntodo > 0 /\ ready # << >> /\ Head(ready).k = k

\* The poll is over: the callbacks now in the queue make up the iteration.
BeginRun ==
    /\ ntodo = 0 /\ ready # << >>
    /\ Commit([S EXCEPT !.ntodo = Len(ready)])

RunExec ==
    /\ Runs("exec")
    /\ Commit(execute(Pop, Head(ready).c))

RunBh ==
    /\ Runs("bh")
    /\ Commit(bh_execute(Pop, Head(ready).c))

RunReader ==
    /\ Runs("reader")
    /\ Commit(reader(Pop))

RunWriter ==
    /\ Runs("writer")
    /\ Commit(writer(Pop))

RunDisconnect ==
    /\ Runs("disc")
    /\ Commit(disconnect(Pop, Head(ready).c))

RunConnect ==
    /\ Runs("conn")
    /\ Commit(connect(Pop))

\* ---- the user and the peer ----

EnvLeft == nirq + ndisc + Cardinality(hist.ccancel) < MaxEnv

\* The user schedules the next execute().
Call ==
    /\ ntodo = 0 /\ ncalls < MaxCalls
    /\ Commit([S EXCEPT !.ncalls = @ + 1, !.epc[ncalls + 1] = "start",
                        !.ready = Append(@, H("exec", ncalls + 1))])

\* The user cancels an execute() that is suspended in `await task`: the
\* cancellation is passed on to the task; if the task has already ended,
\* CancelledError is raised at the await when the execute resumes.
CancelCall(c) ==
    /\ ntodo = 0 /\ Cardinality(hist.ccancel) < MaxCancel /\ EnvLeft
    /\ epc[c] = "await" /\ ~bcancel[c] /\ c \notin hist.ccancel
    /\ LET s0 == [S EXCEPT !.hist.ccancel = @ \cup {c}]
       IN  Commit(IF bpc[c] = "done"
                  THEN [s0 EXCEPT !.ecancel[c] = TRUE]
                  ELSE fut_cancel(s0, c))

\* The user schedules a connect().
ConnectCall ==
    /\ ntodo = 0 /\ nconn < MaxConn /\ cpc = "none"
    /\ Commit([S EXCEPT !.nconn = @ + 1, !.cpc = "start",
                        !.ready = Append(@, H("conn", 0))])

\* The transport is established, or fails to be.
ConnectDone(ok) ==
    /\ ntodo = 0 /\ cpc = "open"
    /\ Commit([S EXCEPT !.cpc = IF ok THEN "estab" ELSE "failed",
                        !.ready = Append(@, H("conn", 0))])

\* The user schedules the next disconnect().
DisconnectCall ==
    /\ ntodo = 0 /\ ndisc < MaxDisc /\ EnvLeft
    /\ Commit([S EXCEPT !.ndisc = @ + 1, !.dpc[ndisc + 1] = "start",
                        !.ready = Append(@, H("disc", ndisc + 1))])

\* The transport's read callback: what the socket holds is fed to the stream
\* reader, and a reader task suspended in _readline is woken.
data_received(s) ==
    LET s1 == [s EXCEPT !.rbuf = @ \o s.net, !.net = << >>,
                        !.eof = s.netclosed]
    IN  IF s1.rpc = "recv"
        THEN [s1 EXCEPT !.rpc = "ready", !.ready = Append(@, H("reader", 0))]
        ELSE s1

RunData ==
    /\ Runs("data")
    /\ Commit(data_received(Pop))

\* The socket became readable: the poll schedules the read callback, once.
Readable(s) ==
    IF InSeq(s.ready, H("data", 0)) THEN s
    ELSE [s EXCEPT !.ready = Append(@, H("data", 0))]

SessionLive ==
    /\ ntodo = 0 /\ state = "Running" /\ ~netclosed
    /\ rpc \notin {"none", "dead"}

\* The peer answers the oldest unanswered request with one line: OK alone,
\* or OK and the argument of the request.
ServerReply(bare) ==
    /\ SessionLive /\ sent # << >>
    /\ bare => nbare < MaxBare
    /\ LET reply == IF bare THEN << "OK" >>
                    ELSE << "OK", do_recv(Head(sent))[2] >>
       IN  Commit(Readable([S EXCEPT !.sent = Tail(@),
                                     !.net = Append(@, do_send(reply)),
                                     !.nbare = IF bare THEN @ + 1 ELSE @,
                                     !.hist.replies = Append(@, reply)]))

IrqLine(n) == IF n % 2 = 0 THEN << "IRQ", "raise", "0" >>
              ELSE << "IRQ", "lower", "0" >>

\* The peer sends an IRQ line.
ServerIrq ==
    /\ SessionLive /\ nirq < MaxIrq /\ EnvLeft
    /\ Commit(Readable([S EXCEPT !.nirq = @ + 1,
                                 !.net = Append(@, do_send(IrqLine(nirq)))]))

\* The peer closes the stream.
PeerClose ==
    /\ SessionLive
    /\ Commit(Readable([S EXCEPT !.netclosed = TRUE]))

Next ==
    \/ BeginRun
    \/ RunExec \/ RunBh \/ RunReader \/ RunWriter
    \/ RunDisconnect \/ RunConnect \/ RunData
    \/ Call
    \/ \E c \in Calls : CancelCall(c)
    \/ ConnectCall
    \/ \E ok \in BOOLEAN : ConnectDone(ok)
    \/ DisconnectCall
    \/ \E bare \in BOOLEAN : ServerReply(bare)
    \/ ServerIrq \/ PeerClose

Spec == Init /\ [][Next]_vars

TypeOK ==
    /\ state \in {"Idle", "Connecting", "Running", "Disconnecting"}
    /\ \A c \in Calls : Len(queue[c]) <= 1
    /\ Len(outgoing) <= maxsize

\* ---- properties ----

Issued == 1..ncalls
InFlight == { c \in Calls : epc[c] = "await" }
IsIrq(line) == line[1] = "IRQ"
IdOf(msg) == CHOOSE c \in Calls : Tag(c) = msg[2]
Enqueued(c) == InSeq(hist.enq, Msg(c))
\* The loop has nothing left to run.
Quiet == ntodo = 0 /\ ready = << >>
\* Every request was written and answered, and every answer was read.
AllAnswered ==
    /\ Quiet /\ outgoing = << >> /\ sent = << >> /\ net = << >> /\ rbuf = << >>
    /\ Len(hist.replies) = ncalls

\* C1: executes issued while Running, none cancelled, session not ended, the
\* peer answering each request in order: once every answer was read and the
\* loop is idle, the k-th execute has returned the payload of the k-th
\* response line.
C1_FifoCorrelation ==
    ( /\ state = "Running" /\ ~netclosed /\ ndisc = 0 /\ hist.ccancel = {}
      /\ \A c \in Issued : hist.callstate[c] = "Running"
      /\ AllAnswered )
    => \A c \in Issued :
          /\ epc[c] = "done"
          /\ eout[c] = Out("ret", "", Tail(hist.replies[c]))

\* C2: every execute that was in flight when _bh_disconnect ran exits with
\* DisconnectedError, none is left waiting once the loop is idle, and a
\* disconnect() that follows the end of the session does not raise.
C2_DisconnectCancelsAll ==
    /\ \A c \in hist.bhdisc :
          (hist.callstate[c] = "Running" /\ epc[c] = "done")
          => eout[c].k = "DisconnectedError"
    /\ Quiet => \A c \in hist.bhdisc : epc[c] = "done"
    /\ \A d \in Discs : hist.dstate[d] = "Disconnecting" => dpc[d] # "raised"

\* What does hold of the executes in flight when _bh_disconnect ran: one
\* whose _bh_execute task had not finished exits with DisconnectedError, one
\* whose task had finished exits with the outcome of its task
\* (DisconnectedError if the task had been cancelled, else its result), none
\* is left waiting once the loop is idle, and a disconnect() that starts
\* after all of them have exited does not raise.
DisconnectCancelsUnfinished ==
    /\ \A c \in hist.bhcanc :
          epc[c] = "done" => eout[c].k = "DisconnectedError"
    /\ \A c \in hist.bhdisc \ hist.bhcanc :
          epc[c] = "done" =>
              eout[c] = IF ecancel[c] \/ bout[c].k = "cancelled"
                        THEN Out("DisconnectedError", "", << >>) ELSE bout[c]
    /\ Quiet => \A c \in hist.bhdisc : epc[c] = "done"
    /\ \A d \in Discs :
          (hist.dstate[d] = "Disconnecting" /\ hist.dclean[d])
          => /\ dpc[d] # "raised"
             /\ Quiet => dpc[d] = "done"

\* Both executes were cancelled by _bh_disconnect and a later disconnect() was clean.
PeerCloseCancelsBoth ==
    /\ Cardinality(hist.bhcanc) = 2
    /\ \A c \in hist.bhcanc : eout[c].k = "DisconnectedError"
    /\ \E d \in Discs : /\ hist.dstate[d] = "Disconnecting" /\ hist.dclean[d]
                        /\ dpc[d] = "done"

\* C3: _pending holds exactly the executes that were entered and have not
\* exited, each once.
C3_PendingMatchesInFlight ==
    /\ Len(pending) = Cardinality(InFlight)
    /\ \A c \in Calls : InSeq(pending, c) <=> c \in InFlight

C3_Witness ==
    \E c1, c2 \in Calls :
        /\ epc[c1] = "done" /\ eout[c1].k = "DisconnectedError"
        /\ epc[c2] = "await" /\ pending = << c2 >>

\* The execute step of call c is about to run from its entry.
Entering(c) == Runs("exec") /\ Head(ready).c = c /\ epc[c] = "start"

\* C4: an execute entered while Disconnecting raises StateError at once and
\* leaves the engine as it was: nothing appended to _pending, no task created,
\* nothing put on the outgoing queue.
C4_DisconnectingStateError ==
    [][ \A c \in Calls :
          (Entering(c) /\ state = "Disconnecting")
          => /\ epc'[c] = "done" /\ eout'[c].k = "StateError"
             /\ pending' = pending /\ outgoing' = outgoing
             /\ bpc' = bpc /\ queue' = queue /\ state' = state
             /\ ready' = Tail(ready) ]_vars

C4_Witness ==
    \E c \in Calls : /\ hist.callstate[c] = "Disconnecting"
                     /\ epc[c] = "done" /\ eout[c].k = "StateError"

\* C5 (as stated): an execute entered while Idle or Connecting (not cancelled
\* by its caller, the session not being torn down) raises StateError, puts nothing on the outgoing
\* queue and is no longer in _pending after it raised.
C5_NotRunningStateError ==
    \A c \in Calls :
        ( /\ hist.callstate[c] \in {"Idle", "Connecting"}
          /\ c \notin hist.ccancel /\ ndisc = 0 /\ ~netclosed )
        => /\ ~Enqueued(c)
           /\ epc[c] = "done" => /\ eout[c].k = "StateError"
                                  /\ ~InSeq(pending, c)

\* C5 (amended): an execute entered while Idle or Connecting whose
\* _bh_execute task first runs while the session is still not Running puts
\* nothing on the outgoing queue and, unless its caller cancels it, raises
\* StateError; this is always so for a call entered while Idle.  Whatever its
\* outcome, its entry is out of _pending once it has exited.
C5_NotRunningAtSend ==
    \A c \in Calls :
        hist.callstate[c] \in {"Idle", "Connecting"} =>
        /\ (hist.bhstate[c] \notin {"none", "Running"})
              => /\ ~Enqueued(c)
                 /\ bpc[c] = "done" /\ bout[c].k = "StateError"
                 /\ (epc[c] = "done" /\ c \notin hist.ccancel)
                       => eout[c].k = "StateError"
        /\ (hist.callstate[c] = "Idle" /\ bpc[c] = "done")
              => ~Enqueued(c)
        /\ (hist.callstate[c] = "Idle" /\ c \notin hist.ccancel
               /\ bpc[c] = "done")
              => hist.bhstate[c] \in {"Idle", "Connecting"}
        /\ epc[c] = "done" => ~InSeq(pending, c)

C5_Witness ==
    /\ \E c \in Calls : /\ hist.callstate[c] = "Connecting"
                        /\ hist.bhstate[c] = "Connecting"
                        /\ epc[c] = "done" /\ eout[c].k = "StateError"
    /\ \E c \in Calls : /\ hist.callstate[c] = "Idle"
                        /\ epc[c] = "done" /\ eout[c].k = "StateError"

\* The wire carried 'IRQ raise 0', 'OK', 'IRQ lower 0' while one execute was
\* in flight, and everything was read and run.
IrqOkIrq ==
    /\ hist.seen = << IrqLine(0), << "OK" >>, IrqLine(1) >>
    /\ ncalls = 1 /\ hist.callstate[1] = "Running" /\ hist.ccancel = {}
    /\ state = "Running" /\ Quiet

EnteringDisc(d) == Runs("disc") /\ Head(ready).c = d /\ dpc[d] \in {"start", "lockwoken"}

SessionCalls ==
    { c \in Calls : hist.callstate[c] = "Running" \/ hist.bhstate[c] = "Running" }

\* C8: at the moment a disconnect() call returns, the session is neither
\* running nor disconnecting, and neither the reader, nor the writer, nor any
\* execute of the session is still scheduled or waiting.
C8_QuiescentAfterDisconnect ==
    [][ \A d \in Discs :
          (dpc[d] # "done" /\ dpc'[d] = "done")
          => /\ state' = "Idle"
             /\ rpc' = "none" /\ wpc' = "none"
             /\ \A i \in 1..Len(ready') : ready'[i].k \notin {"reader", "writer"}
             /\ \A c \in Calls :
                   (hist.callstate'[c] = "Running" \/ hist.bhstate'[c] = "Running")
                   => epc'[c] = "done" /\ bpc'[c] \in {"none", "done"} ]_vars

C8_Witness ==
    \E d \in Discs :
        /\ dpc[d] = "done" /\ hist.dstate[d] \in {"Running", "Disconnecting"}
        /\ \E c \in SessionCalls : eout[c].k = "DisconnectedError"

\* C9: while the session stays Running, the response to an execute that its
\* caller cancelled is never delivered to another execute: it is in no other
\* call's reply queue and is no other call's result.
C9_CancelledReplyNotMisdelivered ==
    \A c \in hist.ccancel : \A d \in Calls \ {c} :
        /\ \A i \in 1..Len(queue[d]) : queue[d][i] # << "OK", Tag(c) >>
        /\ ~(bout[d].k = "ret" /\ bout[d].v = << Tag(c) >>)
        /\ ~(eout[d].k = "ret" /\ eout[d].v = << Tag(c) >>)

\* C10: requests enter the outgoing queue in the order in which their
\* executes were called, and the queue holds them in that order.
C10_OutgoingInCallOrder ==
    /\ \A i, j \in 1..Len(hist.enq) :
          i < j => IdOf(hist.enq[i]) < IdOf(hist.enq[j])
    /\ \A i, j \in 1..Len(outgoing) :
          i < j => IdOf(outgoing[i]) < IdOf(outgoing[j])

C10_Witness ==
    /\ Len(hist.enq) = 2 /\ hist.enq = << Msg(1), Msg(2) >>
    /\ sent = << do_send(Msg(1)), do_send(Msg(2)) >>

\* ---- the classification of a reply, examined on its own ----

Words == {"a", "b", "0"}
Statuses == {"OK", "FAIL", "ERR", "", "ok", "BAD"}
TokenSeqs(n) == UNION { [1..k -> Words] : k \in 0..n }
Replies == { << st >> \o r : st \in Statuses, r \in TokenSeqs(MaxTokens) }

\* An execute is called in a running session, its task sends the request
\* and waits, the reader delivers `reply`, the task and then the execute
\* resume: the outcome of the execute.
execute_with_reply(reply) ==
    LET s0 == execute([S EXCEPT !.state = "Running", !.epc[1] = "start"], 1)
        s1 == bh_execute(s0, 1)
        s2 == on_message(s1, reply)
        s3 == bh_execute(s2, 1)
    IN  execute(s3, 1).eout[1]

InitClassify == InitEngine /\ fin \in Replies /\ fout = NoOut /\ app = << >>

ClassifyReply ==
    /\ fout = NoOut
    /\ fout' = execute_with_reply(fin)
    /\ UNCHANGED << evars, fin, app >>

NextClassify == ClassifyReply

SpecClassify == InitClassify /\ [][NextClassify]_vars

\* C11: a reply whose first token is OK makes the call return the remaining
\* tokens; FAIL or ERR makes it raise QtestError with that status and the
\* remaining tokens joined by single blanks; any other first token makes it
\* raise ProtocolError.
C11_ResponseClassification ==
    fout # NoOut =>
        LET status == Head(fin)
            rest == Tail(fin)
        IN  /\ status = "OK" => fout = Out("ret", "", rest)
            /\ status \in {"FAIL", "ERR"}
                  => fout = Out("QtestError", status, join(rest))
            /\ status \notin {"OK", "FAIL", "ERR"} => fout.k = "ProtocolError"

\* What does hold of a reply with another first token: the call raises the
\* built-in Exception, and returns nothing.
UnknownStatusRaisesException ==
    fout # NoOut =>
        LET status == Head(fin)
            rest == Tail(fin)
        IN  /\ status = "OK" => fout = Out("ret", "", rest)
            /\ status \in {"FAIL", "ERR"}
                  => fout = Out("QtestError", status, join(rest))
            /\ status \notin {"OK", "FAIL", "ERR"} => fout.k = "Exception"

\* ---- semerror.py: the semantic upgrade of an ExecuteError ----

\* class ErrorClass(Enum): the member of each value.
ErrorClassMembers ==
    [ GenericError    |-> "generic_error",
      CommandNotFound |-> "command_not_found",
      DeviceNotActive |-> "device_not_active",
      DeviceNotFound  |-> "device_not_found",
      KVMMissingCap   |-> "kvm_missing_cap" ]

\* ErrorClass(value): the member with that value, or ValueError.
ErrorClass(value) ==
    IF value \in DOMAIN ErrorClassMembers THEN ErrorClassMembers[value]
    ELSE "ValueError"

\* _MAP: the exception class of each member.
_MAP ==
    [ generic_error     |-> "GenericError",
      command_not_found |-> "CommandNotFound",
      device_not_active |-> "DeviceNotActive",
      device_not_found  |-> "DeviceNotFound",
      kvm_missing_cap   |-> "KVMMissingCap" ]

\* ExecuteError.__init__, called through the class cls: a new exception
\* object, with no cause, no context and no traceback yet.
ExecuteError(cls, obj, sentmsg, received, error) ==
    [ type |-> cls, obj |-> obj, sent |-> sentmsg, received |-> received,
      error |-> error, cause |-> "None", context |-> "None",
      traceback |-> "None" ]

\* Variant: the new exception is returned as it was constructed.
upgrade_without_cause(err) ==
    LET enum_val == ErrorClass(err.error.class_)
    IN  IF enum_val = "ValueError" THEN err
        ELSE ExecuteError(_MAP[enum_val], "new", err.sent, err.received,
                          err.error)

\* Variant: an unrecognized class is upgraded to GenericError.
upgrade_default_generic(err) ==
    LET enum_val == ErrorClass(err.error.class_)
        cls == IF enum_val = "ValueError" THEN "GenericError"
               ELSE _MAP[enum_val]
    IN  [ ExecuteError(cls, "new", err.sent, err.received, err.error)
            EXCEPT !.cause = err.cause, !.context = err.context,
                   !.traceback = err.traceback ]

upgrade_exception_class(err) ==
    LET enum_val == ErrorClass(err.error.class_)
    IN  IF enum_val = "ValueError" THEN err
        ELSE LET cls == _MAP[enum_val]
                 exc == ExecuteError(cls, "new", err.sent, err.received,
                                     err.error)
             IN  [ exc EXCEPT !.cause = err.cause, !.context = err.context,
                              !.traceback = err.traceback ]

KnownClasses == { "GenericError", "CommandNotFound", "DeviceNotActive",
                  "DeviceNotFound", "KVMMissingCap" }
\* Values of ErrorInfo.class_ that are no value of ErrorClass.
OtherClasses == { "NovelClass", "genericerror", "" }

\* The errors handed to upgrade_exception_class: raised ExecuteErrors.
ExecuteErrors ==
    { [ ExecuteError("ExecuteError", "old", sentmsg, "reply",
                     [class_ |-> c, desc |-> d])
          EXCEPT !.cause = cause, !.context = cause, !.traceback = tb ] :
        sentmsg \in {"m1", "m2"}, c \in KnownClasses \cup OtherClasses,
        d \in {"x", "Parameter 'node' is missing"},
        cause \in {"None", "e1"}, tb \in {"None", "tb1"} }

InitUpgrade ==
    InitEngine /\ fin \in ExecuteErrors /\ fout = NoOut /\ app = << >>

Upgrade ==
    /\ fout = NoOut
    /\ fout' = upgrade_exception_class(fin)
    /\ UNCHANGED << evars, fin, app >>

NextUpgrade == Upgrade

SpecUpgrade == InitUpgrade /\ [][NextUpgrade]_vars

\* C12: an ExecuteError whose class is one of the five known names is
\* upgraded to the exception class of that name, with the same sent,
\* received and error fields and the same cause.
C12_UpgradeKnown ==
    (fout # NoOut /\ fin.error.class_ \in KnownClasses)
    => /\ fout.type = fin.error.class_
       /\ fout.sent = fin.sent /\ fout.received = fin.received
       /\ fout.error = fin.error
       /\ fout.cause = fin.cause

C12_Witness ==
    /\ fout # NoOut /\ fin.error.class_ = "DeviceNotFound"
    /\ fin.cause = "e1" /\ fout.type = "DeviceNotFound" /\ fout.obj = "new"

\* C13: an ExecuteError whose class is none of the five known names is
\* returned as it is: the same object, of the base class, with the same
\* fields; nothing is raised.
C13_UpgradeUnknown ==
    (fout # NoOut /\ fin.error.class_ \notin KnownClasses)
    => /\ fout = fin
       /\ fout.obj = "old" /\ fout.type = "ExecuteError"

C13_Witness ==
    /\ fout # NoOut /\ fin.error.class_ = "NovelClass" /\ fin.error.desc = "x"
    /\ fout = fin

\* ---- app.py: what the user types is sent to the server ----

\* json.loads on the texts the user types here: the value, or the exception.
json_loads(text) ==
    CASE text \in { "", "query-status", "{\"execute\": \"query-status\"",
                    "{'execute': 'query-status'}" }
           -> [raises |-> "JSONDecodeError"]
      [] text = "42" -> [t |-> "int"]
      [] text = "\"execute\"" -> [t |-> "str"]
      [] text = "[\"execute\"]" -> [t |-> "list"]
      [] text = "null" -> [t |-> "NoneType"]
      [] text = "{}" -> [t |-> "dict", d |-> [k \in {} |-> ""]]
      [] text = "{\"arguments\": {}}"
           -> [t |-> "dict", d |-> [arguments |-> "{}"]]
      [] text = "{\"execute\": \"query-status\"}"
           -> [t |-> "dict", d |-> [execute |-> "query-status"]]
      [] text = "{\"execute\": \"stop\", \"arguments\": {}}"
           -> [t |-> "dict", d |-> [execute |-> "stop", arguments |-> "{}"]]

UserTexts ==
    { "", "query-status", "{\"execute\": \"query-status\"",
      "{'execute': 'query-status'}", "42", "\"execute\"", "[\"execute\"]",
      "null", "{}", "{\"arguments\": {}}", "{\"execute\": \"query-status\"}",
      "{\"execute\": \"stop\", \"arguments\": {}}" }

\* msg['execute']: the member, KeyError, or TypeError on what is no dict.
getitem(v, key) ==
    IF v.t # "dict" THEN [raises |-> "TypeError"]
    ELSE IF key \notin DOMAIN v.d THEN [raises |-> "KeyError"]
    ELSE [val |-> v.d[key]]

\* msg.get('arguments')
dict_get(v, key) == IF key \in DOMAIN v.d THEN v.d[key] ELSE "None"

Raises(r) == "raises" \in DOMAIN r

\* send_to_server: a task is created for _send_to_server(msg).
send_to_server(a, msg) ==
    [a EXCEPT !.msgs = Append(@, msg), !.pc = Append(@, "ready")]

\* except Exception as e: logging.info(...); the task ends.
send_logs(a, i, e) ==
    [a EXCEPT !.log = Append(@, << i, e >>), !.pc[i] = "done"]

\* The parsing outside the try: its exception is the task's.
send_to_server_begin_no_try(a, i) ==
    LET msg == json_loads(a.msgs[i])
        cmd == IF Raises(msg) THEN msg ELSE getitem(msg, "execute")
    IN  IF Raises(cmd) THEN [a EXCEPT !.escaped = Append(@, << i, cmd.raises >>),
                                      !.pc[i] = "done"]
        ELSE [a EXCEPT !.executed =
                           Append(@, << i, cmd.val, dict_get(msg, "arguments") >>),
                       !.pc[i] = "execute"]

\* _send_to_server up to its first suspension: the message is parsed and the
\* command handed to execute, or the failure is logged.
send_to_server_begin(a, i) ==
    LET msg == json_loads(a.msgs[i])
        cmd == IF Raises(msg) THEN msg ELSE getitem(msg, "execute")
    IN  IF Raises(cmd) THEN send_logs(a, i, cmd.raises)
        ELSE [a EXCEPT !.executed =
                           Append(@, << i, cmd.val, dict_get(msg, "arguments") >>),
                       !.pc[i] = "execute"]

\* _send_to_server after execute: the response is shown, or the exception
\* of execute is logged.
send_to_server_end(a, i, ok) ==
    IF ok THEN [a EXCEPT !.updates = Append(@, << i, "response" >>),
                         !.pc[i] = "done"]
    ELSE send_logs(a, i, "ExecuteError")

InitApp ==
    /\ InitEngine /\ fin = << >> /\ fout = << >>
    /\ app = [msgs |-> << >>, pc |-> << >>, executed |-> << >>,
              updates |-> << >>, log |-> << >>, escaped |-> << >>]

\* The user sends a message.
AppSend(text) ==
    /\ Len(app.msgs) < MaxInputs
    /\ app' = send_to_server(app, text)
    /\ UNCHANGED << evars, fin, fout >>

\* The loop runs the oldest task not yet started.
AppRun ==
    /\ \E i \in DOMAIN app.pc :
          /\ app.pc[i] = "ready"
          /\ \A j \in 1..(i - 1) : app.pc[j] # "ready"
          /\ app' = send_to_server_begin(app, i)
    /\ UNCHANGED << evars, fin, fout >>

\* execute ends for a task: with a response, or with an exception.
AppExecuted(i, ok) ==
    /\ i \in DOMAIN app.pc
    /\ app.pc[i] = "execute"
    /\ app' = send_to_server_end(app, i, ok)
    /\ UNCHANGED << evars, fin, fout >>

NextApp ==
    \/ \E text \in UserTexts : AppSend(text)
    \/ AppRun
    \/ \E i \in 1..MaxInputs, ok \in BOOLEAN : AppExecuted(i, ok)

SpecApp == InitApp /\ [][NextApp]_vars

\* An input that is no JSON text, or whose value has no 'execute' member.
Malformed(text) ==
    \/ Raises(json_loads(text))
    \/ Raises(getitem(json_loads(text), "execute"))

Of(seq, i) == { k \in DOMAIN seq : seq[k][1] = i }

\* C14: an input that cannot be parsed, or that lacks the 'execute' key,
\* never reaches execute, nothing is displayed for it, and no exception
\* leaves its task: once the task has run, the failure is logged only.
C14_MalformedInputDiscarded ==
    \A i \in DOMAIN app.msgs :
        Malformed(app.msgs[i]) =>
            /\ Of(app.executed, i) = {}
            /\ Of(app.updates, i) = {}
            /\ Of(app.escaped, i) = {}
            /\ app.pc[i] \in {"ready", "done"}
            /\ app.pc[i] = "done" => Cardinality(Of(app.log, i)) = 1

\* A text lacking 'execute' was discarded, and the message after it executed
\* and displayed.
C14_Witness ==
    /\ Len(app.msgs) = 2
    /\ app.msgs[1] = "{\"arguments\": {}}"
    /\ app.pc = << "done", "done" >>
    /\ app.log = << << 1, "KeyError" >> >>
    /\ app.executed = << << 2, "stop", "{}" >> >>
    /\ app.updates = << << 2, "response" >> >>

\* ---- the outgoing queue at its capacity ----

\* The engine with an outgoing queue that the calls made here can fill.
InitFull ==
    InitEngineWith(SmallMaxsize) /\ fin = << >> /\ fout = << >> /\ app = << >>

SpecFull == InitFull /\ [][Next]_vars

\* The _bh_execute task of c passed the test of self.running.
PastRunningTest(c) == hist.bhstate[c] = "Running"

\* C15: an execute whose task finds the session Running and the outgoing
\* queue at its capacity waits for a free slot: it does not fail on the full
\* queue, and its request is enqueued.
C15_FullQueueSuspends ==
    \A c \in Calls :
        (hist.callstate[c] = "Running" /\ PastRunningTest(c)) =>
            /\ bout[c].k # "QueueFull" /\ eout[c].k # "QueueFull"
            /\ bpc[c] = "done" => Enqueued(c)

\* ---- qtest_api.py: Qtest.rtas ----

\* A token is the sequence of its characters.
Chars == {"-", "0", "1", "4", "x"}
Tokens == UNION { [1..n -> Chars] : n \in 0..MaxDigits }

DigitVal(ch) == CASE ch = "0" -> 0 [] ch = "1" -> 1 [] ch = "4" -> 4

RECURSIVE ValueIn(_, _)
\* The number the digits ds write in the given base.
ValueIn(ds, base) ==
    IF ds = << >> THEN 0
    ELSE ValueIn(SubSeq(ds, 1, Len(ds) - 1), base) * base + DigitVal(ds[Len(ds)])

AllDigits(ds) == ds # << >> /\ \A i \in DOMAIN ds : ds[i] \in {"0", "1", "4"}

ValueError == [raises |-> "ValueError"]

\* int(s, base=0) of an unsigned literal: 0x and hexadecimal digits, or a
\* decimal literal, which has no leading zero unless it is all zeros.
int_unsigned(ds) ==
    IF Len(ds) >= 2 /\ ds[1] = "0" /\ ds[2] = "x"
    THEN IF AllDigits(SubSeq(ds, 3, Len(ds)))
         THEN [val |-> ValueIn(SubSeq(ds, 3, Len(ds)), 16)]
         ELSE ValueError
    ELSE IF ~AllDigits(ds) THEN ValueError
    ELSE IF ds[1] = "0" /\ \E i \in DOMAIN ds : ds[i] # "0" THEN ValueError
    ELSE [val |-> ValueIn(ds, 10)]

\* int(s, base=0): an optional sign, then the literal.
int_base0(tok) ==
    IF tok # << >> /\ tok[1] = "-"
    THEN LET r == int_unsigned(Tail(tok))
         IN  IF Raises(r) THEN r ELSE [val |-> 0 - r.val]
    ELSE int_unsigned(tok)

RtasOut(k, msg, rc) == [k |-> k, msg |-> msg, rc |-> rc]

\* Variant: rtas without the test for -4.
rtas_no_h_parameter(res) ==
    IF Len(res) # 1 THEN RtasOut("AssertionError", "", 0)
    ELSE LET rc == int_base0(res[1])
         IN  IF Raises(rc) THEN RtasOut("ValueError", "", 0)
             ELSE IF rc.val # 0
             THEN RtasOut("Exception", "non-zero code", rc.val)
             ELSE RtasOut("ret", "", 0)

\* rtas after execute returned res, the tokens that followed OK.
rtas(res) ==
    IF Len(res) # 1 THEN RtasOut("AssertionError", "", 0)
    ELSE LET rc == int_base0(res[1])
         IN  IF Raises(rc) THEN RtasOut("ValueError", "", 0)
             ELSE IF rc.val = 0 - 4
             THEN RtasOut("Exception", "H_PARAMETER", rc.val)
             ELSE IF rc.val # 0
             THEN RtasOut("Exception", "non-zero code", rc.val)
             ELSE RtasOut("ret", "", 0)

\* What execute may return to rtas: one token, none, or two.
RtasReplies ==
    { << tok >> : tok \in Tokens }
        \cup { << >>, << << "0" >>, << "0" >> >>, << << "-", "4" >>, << "0" >> >> }

InitRtas ==
    InitEngine /\ fin \in RtasReplies /\ fout = NoOut /\ app = << >>

RtasReturns ==
    /\ fout = NoOut
    /\ fout' = rtas(fin)
    /\ UNCHANGED << evars, fin, app >>

NextRtas == RtasReturns

SpecRtas == InitRtas /\ [][NextRtas]_vars

\* The reply has one token, and int(token, base=0) is a number.
Parses(res) == Len(res) = 1 /\ ~Raises(int_base0(res[1]))

\* C16: for a reply of one token that parses to rc, rtas returns iff
\* rc = 0, raises the H_PARAMETER error iff rc = -4, and raises the generic
\* failure iff rc is any other number.
C16_RtasReturnCode ==
    (fout # NoOut /\ Parses(fin)) =>
        LET rc == int_base0(fin[1]).val
        IN  /\ fout.k \in {"ret", "Exception"}
            /\ fout.k = "ret" <=> rc = 0
            /\ (fout.k = "Exception" /\ fout.msg = "H_PARAMETER") <=> rc = 0 - 4
            /\ (fout.k = "Exception" /\ fout.msg = "non-zero code")
                   <=> rc \notin {0, 0 - 4}
            /\ fout.k = "Exception" => fout.rc = rc

\* The reply -0x4 raised the H_PARAMETER error.
C16_Witness ==
    /\ fin = << << "-", "0", "x", "4" >> >>
    /\ fout = RtasOut("Exception", "H_PARAMETER", 0 - 4)

\* ---- progress ----

\* What the event loop does: it runs every handle that is ready, and the
\* transport hands over what has arrived.
Loop ==
    \/ BeginRun
    \/ RunExec \/ RunBh \/ RunReader \/ RunWriter
    \/ RunDisconnect \/ RunConnect \/ RunData

\* The session has stayed Running since it was established: no disconnect,
\* the stream open, no call cancelled by its caller, every call made while
\* Running.
StaysRunning ==
    /\ state = "Running" /\ ndisc = 0 /\ ~netclosed /\ hist.ccancel = {}
    /\ \A c \in Issued : hist.callstate[c] = "Running"

\* Nothing is left to happen: the loop is idle, every request was written,
\* the server has answered all it received, and every answer was read.
Settled ==
    /\ Quiet /\ outgoing = << >> /\ sent = << >> /\ net = << >> /\ rbuf = << >>

\* From a settled state neither the loop nor the server takes a step.
SettledIsFinal ==
    [][Settled => ~(Loop \/ \E bare \in BOOLEAN : ServerReply(bare))]_vars

\* C17: in a session that stays Running, with the server answering every
\* request with one line, no execute waits forever and the reader does not
\* stay suspended in the put of _on_message: once nothing is left to happen,
\* every execute has completed and the reader is not in that put.
C17_ExecuteProgress ==
    (StaysRunning /\ Settled) =>
        /\ \A c \in Issued : epc[c] = "done"
        /\ rpc # "put"

\* ---- the reply queue of a call ----

\* The _bh_execute task of c took a response from its reply queue.
Delivered(c) == bpc[c] = "done" /\ bout[c].k \in {"ret", "QtestError", "Exception"}

\* C18: the reply queue of an execute gets at most one message: the put of
\* _on_message never finds the queue holding a response (the reader never
\* suspends in it), and no queue that has delivered its response is given
\* another.
C18_ReplySlotSingleUse ==
    StaysRunning =>
        /\ rpc \notin {"put", "putwoken"}
        /\ \A c \in Issued : Delivered(c) => queue[c] = << >>

\* ---- the assertion of _cleanup ----

\* C19: the assertion `not self._pending` of _cleanup never fails: when a
\* disconnect() reaches _cleanup, the executes that _bh_disconnect cancelled
\* have all left _pending.
C19_CleanupAssertionHolds ==
    \A d \in Discs : dpc[d] # "raised"

\* ---- the order of _pending ----

\* Where the message of call c was placed on the outgoing queue.
EnqPos(c) == CHOOSE i \in 1..Len(hist.enq) : hist.enq[i] = Msg(c)

\* C20: while the session is Running, the calls in _pending whose message
\* was placed on the outgoing queue are in _pending in the order in which
\* their messages were placed there.
C20_PendingInEnqueueOrder ==
    state = "Running" =>
        \A i, j \in 1..Len(pending) :
            (i < j /\ Enqueued(pending[i]) /\ Enqueued(pending[j]))
                => EnqPos(pending[i]) < EnqPos(pending[j])

\* Two calls are pending in a Running session, both with their message
\* placed on the outgoing queue.
C20_Witness ==
    /\ state = "Running"
    /\ Len(pending) = 2
    /\ Enqueued(pending[1]) /\ Enqueued(pending[2])

\* ---- app.py: leaving the application ----

NoExit == [k |-> "none", dpc |-> "none", state |-> "none"]

\* The front-end with nothing sent: what each _kill_app task ended with.
InitExit ==
    /\ InitEngine /\ fin = << >> /\ fout = << >>
    /\ app = [exit |-> [d \in Discs |-> NoExit]]

\* Variant: _kill_app raises without awaiting disconnect().
kill_app_no_await(a, s, d) ==
    IF a.exit[d] # NoExit THEN a
    ELSE [a EXCEPT !.exit[d] = [k |-> "ExitAppError", dpc |-> s.dpc[d],
                                state |-> s.state]]

\* _kill_app, after the step of its disconnect() that left the engine in s:
\* while disconnect() is suspended nothing more happens; when it has
\* returned ExitAppError is raised; when it has raised, its exception is
\* the task's.
kill_app_raise(a, s, d) ==
    IF s.dpc[d] = "done"
    THEN [a EXCEPT !.exit[d] = [k |-> "ExitAppError", dpc |-> s.dpc[d],
                                state |-> s.state]]
    ELSE IF s.dpc[d] = "raised"
    THEN [a EXCEPT !.exit[d] = [k |-> "AssertionError", dpc |-> s.dpc[d],
                                state |-> s.state]]
    ELSE a

\* esc, SIGINT or SIGTERM: kill_app creates the task of _kill_app.
KillApp ==
    /\ ntodo = 0 /\ ndisc < MaxDisc /\ EnvLeft
    /\ Commit([S EXCEPT !.ndisc = @ + 1, !.dpc[ndisc + 1] = "start",
                        !.ready = Append(@, H("disc", ndisc + 1))])

\* The loop runs a _kill_app task: a step of its disconnect(), and what
\* follows it.
RunKill ==
    /\ Runs("disc")
    /\ LET d == Head(ready).c
           s == disconnect(Pop, d)
       IN  /\ CommitEngine(s)
           /\ app' = kill_app_raise(app, s, d)
    /\ UNCHANGED << fin, fout >>

\* The front-end connects, the peer sends events or closes, and the user
\* asks to leave.
NextExit ==
    \/ BeginRun
    \/ RunReader \/ RunWriter \/ RunConnect \/ RunData
    \/ RunKill
    \/ ConnectCall
    \/ \E ok \in BOOLEAN : ConnectDone(ok)
    \/ KillApp
    \/ ServerIrq \/ PeerClose

SpecExit == InitExit /\ [][NextExit]_vars

\* The exits asked for so far.
Kills == 1..ndisc

InitEdit ==
    /\ InitEngine /\ fin = << >> /\ fout = << >>
    /\ app = [history |-> << >>, last_index |-> 0 - 1, show_history |-> FALSE,
              text |-> << >>, err |-> "none"]

\* Whether lst[i] is an element of the list: a Python index counts from 0,
\* a negative one from the end.
index_valid(lst, i) == 0 - Len(lst) <= i /\ i < Len(lst)

\* lst[i]
list_getitem(lst, i) == IF i >= 0 THEN lst[i + 1] ELSE lst[Len(lst) + i + 1]

\* history[last_index] as keypress reads it: the element is made the edit
\* text and last_index moves on, or IndexError leaves keypress.
show_entry(e) ==
    IF ~index_valid(e.history, e.last_index) THEN [e EXCEPT !.err = "IndexError"]
    ELSE [e EXCEPT !.text = list_getitem(e.history, e.last_index),
                   !.last_index = @ + 1]

Letters == {"a", "b"}

\* What the line editor does with a key that keypress passes on: backspace
\* deletes the last character, a letter is inserted, and up moves the cursor.
super_keypress(e, key) ==
    IF key = "backspace"
    THEN [e EXCEPT !.text = IF @ = << >> THEN @ ELSE SubSeq(@, 1, Len(@) - 1)]
    ELSE IF key \in Letters THEN [e EXCEPT !.text = Append(@, key)]
    ELSE e

\* CustomEdit.keypress
keypress(e, key) ==
    LET msg == e.text
    IN  IF key = "up" /\ msg = << >>
        THEN LET e1 == [e EXCEPT !.show_history = TRUE]
             IN  IF e1.history # << >> THEN show_entry(e1)
                 ELSE [e1 EXCEPT !.text = << >>, !.last_index = @ + 1]
        ELSE IF key = "up" /\ e.show_history
        THEN IF e.last_index < Len(e.history) THEN show_entry(e) ELSE e
        ELSE IF key = "meta enter"
        THEN [e EXCEPT !.history = << msg >> \o @, !.text = << >>,
                       !.last_index = 0, !.show_history = FALSE]
        ELSE super_keypress([e EXCEPT !.show_history = FALSE, !.last_index = 0],
                            key)

Keys == {"up", "meta enter", "backspace"} \cup Letters

\* The user presses a key; an exception of keypress ends the application.
KeyPress(key) ==
    /\ app.err = "none"
    /\ key = "meta enter" => Len(app.history) < MaxHistory
    /\ key \in Letters => Len(app.text) < MaxText
    /\ key = "up" => app.last_index < MaxIndex
    /\ app' = keypress(app, key)
    /\ UNCHANGED << evars, fin, fout >>

NextEdit == \E key \in Keys : KeyPress(key)

SpecEdit == InitEdit /\ [][NextEdit]_vars

\* C22: whatever keys are pressed and whatever was sent, empty messages
\* included, keypress never reads history[last_index] with an index outside
\* the list: no IndexError leaves it.
C22_HistoryIndexInRange == app.err = "none"

====
